---- MODULE Spec2Model ----
(***************************************************************************)
(* The two PostToolUse hooks of src/scripts/hooks/post-edit-typecheck-go.js *)
(* as state machines: VetHook (lines 1-75, go vet after an edit) and        *)
(* FormatHook (lines 76-118, goimports after an edit).  One behaviour is    *)
(* one invocation of one hook: stdin chunks arrive, end-of-stream fires the *)
(* 'end' handler, the handler runs step by step to its console.log.         *)
(*                                                                          *)
(* Text is a sequence of one-character strings.  The character Pad stands   *)
(* for a run of PadLen spaces, so that inputs around the 1 MiB cap can be   *)
(* written down; every length is computed with TextLen.                     *)
(***************************************************************************)
EXTENDS Integers, Sequences, FiniteSets, TLC

\* ------------------------------------------------------------------ text

\* const MAX_STDIN = 1024 * 1024
MAX_STDIN == 1024 * 1024

Pad == "~"
PadLen == MAX_STDIN - 1

Q == "\""
NL == "\n"
SP == " "

CharLen(c) == IF c = Pad THEN PadLen ELSE 1

RECURSIVE TextLen(_)
\* String.prototype.length of a text
TextLen(t) == IF t = <<>> THEN 0 ELSE CharLen(Head(t)) + TextLen(Tail(t))

RECURSIVE Concat(_)
\* the concatenation of a sequence of texts
Concat(ts) == IF ts = <<>> THEN <<>> ELSE Head(ts) \o Concat(Tail(ts))

\* String.prototype.includes
Includes(line, pat) ==
  \E i \in 1..(Len(line) - Len(pat) + 1) : SubSeq(line, i, i + Len(pat) - 1) = pat

RECURSIVE IndexFrom(_, _, _)
\* String.prototype.indexOf(sep, i) for a one-character sep, 0 where there is none
IndexFrom(t, sep, i) ==
  IF i > Len(t) THEN 0 ELSE IF t[i] = sep THEN i ELSE IndexFrom(t, sep, i + 1)

RECURSIVE SplitFrom(_, _, _)
\* the pieces of t from position i on
SplitFrom(t, sep, i) ==
  LET k == IndexFrom(t, sep, i)
  IN  IF k = 0 THEN <<SubSeq(t, i, Len(t))>>
      ELSE <<SubSeq(t, i, k - 1)>> \o SplitFrom(t, sep, k + 1)

\* String.prototype.split(sep) for a one-character separator
SplitOn(t, sep) == SplitFrom(t, sep, 1)

\* Array.prototype.slice(0, n)
SliceTo(s, n) == SubSeq(s, 1, IF Len(s) < n THEN Len(s) ELSE n)

\* ------------------------------------------------------------------ JSON

Digits == {"0", "1", "2", "3", "4", "5", "6", "7", "8", "9"}
Whitespace == {SP, NL, Pad}

\* a JavaScript value: kind k, text s (string, number literal), elements e
JsVal(k, s, e) == [k |-> k, s |-> s, e |-> e]
Undefined == JsVal("undefined", <<>>, <<>>)
ParseFail == [ok |-> FALSE, v |-> Undefined, p |-> 0]
ParseOk(v, p) == [ok |-> TRUE, v |-> v, p |-> p]

RECURSIVE SkipWs(_, _)
SkipWs(t, i) == IF i <= Len(t) /\ t[i] \in Whitespace THEN SkipWs(t, i + 1) ELSE i

\* whether text t holds the word w at position i
HasWord(t, i, w) == i + Len(w) - 1 <= Len(t) /\ SubSeq(t, i, i + Len(w) - 1) = w

RECURSIVE DigitsEnd(_, _)
DigitsEnd(t, i) == IF i <= Len(t) /\ t[i] \in Digits THEN DigitsEnd(t, i + 1) ELSE i

\* a JSON number: 0, or a non-zero digit followed by digits
ParseNumber(t, i) ==
  LET j == DigitsEnd(t, i)
  IN  IF t[i] = "0" /\ j > i + 1 THEN ParseOk(JsVal("num", <<"0">>, <<>>), i + 1)
      ELSE ParseOk(JsVal("num", SubSeq(t, i, j - 1), <<>>), j)

\* a JSON string starting at the quote at i: up to the next quote, no raw newline
ParseString(t, i) ==
  IF \A j \in (i + 1)..Len(t) : t[j] # Q THEN ParseFail
  ELSE LET j == CHOOSE k \in (i + 1)..Len(t) :
                  t[k] = Q /\ \A m \in (i + 1)..(k - 1) : t[m] # Q
       IN  IF \E m \in (i + 1)..(j - 1) : t[m] = NL THEN ParseFail
           ELSE ParseOk(JsVal("str", SubSeq(t, i + 1, j - 1), <<>>), j + 1)

RECURSIVE ParseValue(_, _), ParseElements(_, _, _), ParseMembers(_, _, _)

\* one JSON value starting at or after position i
ParseValue(t, i) ==
  LET j == SkipWs(t, i)
  IN  IF j > Len(t) THEN ParseFail
      ELSE IF HasWord(t, j, <<"n", "u", "l", "l">>)
        THEN ParseOk(JsVal("null", <<>>, <<>>), j + 4)
      ELSE IF HasWord(t, j, <<"t", "r", "u", "e">>)
        THEN ParseOk(JsVal("true", <<>>, <<>>), j + 4)
      ELSE IF HasWord(t, j, <<"f", "a", "l", "s", "e">>)
        THEN ParseOk(JsVal("false", <<>>, <<>>), j + 5)
      ELSE IF t[j] \in Digits THEN ParseNumber(t, j)
      ELSE IF t[j] = Q THEN ParseString(t, j)
      ELSE IF t[j] = "["
        THEN LET k == SkipWs(t, j + 1)
             IN  IF k <= Len(t) /\ t[k] = "]"
                 THEN ParseOk(JsVal("arr", <<>>, <<>>), k + 1)
                 ELSE ParseElements(t, j + 1, <<>>)
      ELSE IF t[j] = "{"
        THEN LET k == SkipWs(t, j + 1)
             IN  IF k <= Len(t) /\ t[k] = "}"
                 THEN ParseOk(JsVal("obj", <<>>, <<>>), k + 1)
                 ELSE ParseMembers(t, j + 1, <<>>)
      ELSE ParseFail

\* the elements of an array after "[" or ",", up to the closing "]"
ParseElements(t, i, acc) ==
  LET r == ParseValue(t, i)
      k == SkipWs(t, r.p)
  IN  IF ~r.ok \/ k > Len(t) THEN ParseFail
      ELSE IF t[k] = "," THEN ParseElements(t, k + 1, Append(acc, r.v))
      ELSE IF t[k] = "]" THEN ParseOk(JsVal("arr", <<>>, Append(acc, r.v)), k + 1)
      ELSE ParseFail

\* the members of an object after "{" or ",", up to the closing "}"
ParseMembers(t, i, acc) ==
  LET j == SkipWs(t, i)
      key == IF j <= Len(t) /\ t[j] = Q THEN ParseString(t, j) ELSE ParseFail
      c == SkipWs(t, key.p)
      r == IF key.ok /\ c <= Len(t) /\ t[c] = ":" THEN ParseValue(t, c + 1) ELSE ParseFail
      k == SkipWs(t, r.p)
      m == [key |-> key.v.s, val |-> r.v]
  IN  IF ~r.ok \/ k > Len(t) THEN ParseFail
      ELSE IF t[k] = "," THEN ParseMembers(t, k + 1, Append(acc, m))
      ELSE IF t[k] = "}" THEN ParseOk(JsVal("obj", <<>>, Append(acc, m)), k + 1)
      ELSE ParseFail

\* JSON.parse: ok is FALSE where it throws SyntaxError
JSONParse(t) ==
  LET r == ParseValue(t, 1)
  IN  IF r.ok /\ SkipWs(t, r.p) > Len(t) THEN r ELSE ParseFail

\* --------------------------------------------------- JavaScript values

\* property access v[key] throws TypeError on null and undefined
AccessThrows(v) == v.k \in {"null", "undefined"}

\* v[key] where it does not throw: the last member of an object with that key
GetProp(v, key) ==
  IF v.k = "obj" /\ \E i \in 1..Len(v.e) : v.e[i].key = key
  THEN v.e[CHOOSE i \in 1..Len(v.e) :
             v.e[i].key = key /\ \A j \in (i + 1)..Len(v.e) : v.e[j].key # key].val
  ELSE Undefined

\* v?.[key]
OptProp(v, key) == IF AccessThrows(v) THEN Undefined ELSE GetProp(v, key)

\* ToBoolean
Truthy(v) ==
  CASE v.k \in {"undefined", "null", "false"} -> FALSE
    [] v.k = "num" -> v.s # <<"0">>
    [] v.k = "str" -> v.s # <<>>
    [] OTHER -> TRUE

RECURSIVE StringOf(_), JoinVals(_)
\* String(v), the coercion RegExp.prototype.test applies to its argument
StringOf(v) ==
  CASE v.k \in {"str", "num"} -> v.s
    [] v.k = "true" -> <<"t", "r", "u", "e">>
    [] v.k = "false" -> <<"f", "a", "l", "s", "e">>
    [] v.k = "null" -> <<"n", "u", "l", "l">>
    [] v.k = "arr" -> JoinVals(v.e)
    [] v.k = "obj" -> <<"[", "o", "b", "j", "e", "c", "t", SP, "O", "b", "j", "e", "c", "t", "]">>
    [] OTHER -> <<"u", "n", "d", "e", "f", "i", "n", "e", "d">>

\* Array.prototype.join(","): null and undefined elements give the empty string
JoinVals(vs) ==
  IF vs = <<>> THEN <<>>
  ELSE (IF Head(vs).k \in {"null", "undefined"} THEN <<>> ELSE StringOf(Head(vs)))
       \o (IF Len(vs) > 1 THEN <<",">> \o JoinVals(Tail(vs)) ELSE <<>>)

GoSuffix == <<".", "g", "o">>

\* /\.go$/.test(s)
TestGoSuffix(s) == Len(s) >= 3 /\ SubSeq(s, Len(s) - 2, Len(s)) = GoSuffix

\* ------------------------------------------------------------ path (posix)

Slash == "/"
GoMod == <<"g", "o", ".", "m", "o", "d">>

RECURSIVE NormSegs(_, _)
\* the segments of a normalized absolute path: "." dropped, ".." pops
NormSegs(segs, acc) ==
  IF segs = <<>> THEN acc
  ELSE IF Head(segs) \in {<<>>, <<".">>} THEN NormSegs(Tail(segs), acc)
  ELSE IF Head(segs) = <<".", ".">>
    THEN NormSegs(Tail(segs), IF acc = <<>> THEN acc ELSE SubSeq(acc, 1, Len(acc) - 1))
  ELSE NormSegs(Tail(segs), Append(acc, Head(segs)))

RECURSIVE JoinSegs(_)
JoinSegs(segs) ==
  IF segs = <<>> THEN <<>> ELSE <<Slash>> \o Head(segs) \o JoinSegs(Tail(segs))

\* the normalized form of an absolute path
NormalizeAbs(p) ==
  LET segs == NormSegs(SplitOn(p, Slash), <<>>)
  IN  IF segs = <<>> THEN <<Slash>> ELSE JoinSegs(segs)

\* path.resolve(p) of a string, in a process whose working directory is cwd
PathResolve(cwd, p) ==
  IF p # <<>> /\ p[1] = Slash THEN NormalizeAbs(p)
  ELSE NormalizeAbs(cwd \o <<Slash>> \o p)

\* path.dirname
PathDirname(p) ==
  LET cuts == {k \in 2..Len(p) : p[k] = Slash /\ \E m \in (k + 1)..Len(p) : p[m] # Slash}
      hasRoot == p # <<>> /\ p[1] = Slash
  IN  IF cuts = {} THEN (IF hasRoot THEN <<Slash>> ELSE <<".">>)
      ELSE LET k == CHOOSE c \in cuts : \A d \in cuts : d <= c
           IN  IF hasRoot /\ k = 2 THEN <<Slash, Slash>> ELSE SubSeq(p, 1, k - 1)

\* path.basename
PathBasename(p) ==
  LET ends == {e \in 1..Len(p) : p[e] # Slash}
  IN  IF ends = {} THEN <<>>
      ELSE LET e == CHOOSE x \in ends : \A y \in ends : y <= x
               starts == {s \in 1..e : p[s] = Slash}
               s == IF starts = {} THEN 0 ELSE CHOOSE x \in starts : \A y \in starts : y <= x
           IN  SubSeq(p, s + 1, e)

\* the two parts put together without a separator
PathJoinConcat(dir, name) == NormalizeAbs(dir \o name)

\* path.join(dir, name) for an absolute dir
PathJoin(dir, name) == NormalizeAbs(dir \o <<Slash>> \o name)

\* path.parse(dir).root
PathRoot(dir) == IF dir # <<>> /\ dir[1] = Slash THEN <<Slash>> ELSE <<>>

\* ------------------------------------------------------- the environment

Hooks == {"vet", "format"}

\* the deepest nesting of an edited file's directory below the filesystem root
MaxNest == 22
\* the most lines a tool's output holds
MaxLines == 15

KeyToolInput == <<"t", "o", "o", "l", "_", "i", "n", "p", "u", "t">>
KeyFilePath == <<"f", "i", "l", "e", "_", "p", "a", "t", "h">>

\* the event {"tool_input":{"file_path":<v>}} for the JSON text v of a value
EventOf(v) == <<"{", Q, "t", "o", "o", "l", "_", "i", "n", "p", "u", "t", Q, ":", "{", Q, "f", "i", "l", "e", "_", "p", "a", "t", "h", Q, ":">> \o v \o <<"}", "}">>
Quoted(s) == <<Q>> \o s \o <<Q>>

RECURSIVE NestedDir(_)
\* the directory /d/d/.../d, n levels below the root ("" for n = 0)
NestedDir(n) == IF n = 0 THEN <<>> ELSE <<Slash, "d">> \o NestedDir(n - 1)

\* the edited file x.go in the directory n levels below the root
GoFile(n) == NestedDir(n) \o <<Slash, "x", ".", "g", "o">>

\* the k-th ancestor of the directory n levels below the root
Ancestor(n, k) == IF k >= n THEN <<Slash>> ELSE NestedDir(n - k)

\* the working directory of the hook process
Cwd == <<Slash, "d">>

\* events of every shape JSON.parse may be given
ShapeEvents ==
  { <<>>,
    <<"{", Q, "t", "o", "o", "l", "_", "i", "n", "p", "u", "t", Q>>,
    <<"n", "u", "l", "l">>,
    <<"7">>,
    <<Q, "x", ".", "g", "o", Q>>,
    <<"[", "]">>,
    <<"{", "}">>,
    <<"{", Q, "t", "o", "o", "l", "_", "i", "n", "p", "u", "t", Q, ":", "n", "u", "l", "l", "}">>,
    <<"{", Q, "t", "o", "o", "l", "_", "i", "n", "p", "u", "t", Q, ":", "7", "}">>,
    <<"{", Q, "f", "i", "l", "e", "_", "p", "a", "t", "h", Q, ":", Q, "x", ".", "g", "o", Q, "}">>,
    EventOf(<<"n", "u", "l", "l">>),
    EventOf(<<"7">>),
    EventOf(<<"0">>),
    EventOf(<<"{", "}">>),
    EventOf(<<"[", Q, "x", ".", "g", "o", Q, "]">>),
    EventOf(<<Q, Q>>),
    EventOf(<<Q, Slash, "d", Slash, "x", ".", "m", "d", Q>>),
    EventOf(<<Q, Slash, "d", Slash, "x", ".", "g", "o", "~", Q>>),
    EventOf(<<Q, "x", ".", "g", "o", Q>>),
    EventOf(<<Q, ".", ".", Slash, "d", Slash, ".", Slash, "x", ".", "g", "o", Q>>),
    EventOf(Quoted(GoFile(1))) }

\* a stream without its empty chunks: a 'data' event always carries text
NonEmptyChunks(st) == SelectSeq(st, LAMBDA c : c # <<>>)

\* the ways a text arrives as stdin chunks: whole, in two halves, after a run of
\* spaces one short of the cap, after a run of spaces that fills the cap, and
\* followed by chunks that reach the cap
Chunkings(e) ==
  { NonEmptyChunks(st) : st \in
      { <<e>>,
        <<SubSeq(e, 1, Len(e) \div 2), SubSeq(e, Len(e) \div 2 + 1, Len(e))>>,
        <<<<Pad>>, e>>,
        <<<<Pad>>, <<SP>>, e>>,
        <<e, <<Pad>>, <<NL>>>>,
        <<e, <<Pad, SP>>, <<"x">>>> } }

\* the filesystem holding the file n levels down and go.mod in the ancestors ks
FsOf(n, hasFile, ks) ==
  (IF hasFile THEN {GoFile(n)} ELSE {}) \cup {PathJoin(Ancestor(n, k), GoMod) : k \in ks}

\* a stream of chunks, a filesystem
Scenarios ==
  { [stream |-> c, fs |-> f] :
      c \in UNION {Chunkings(e) : e \in ShapeEvents},
      f \in {FsOf(1, FALSE, {0}), FsOf(1, TRUE, {}), FsOf(1, TRUE, {0}), FsOf(1, TRUE, {1})} }
  \cup
  { [stream |-> <<EventOf(Quoted(GoFile(n)))>>, fs |-> FsOf(n, TRUE, ks)] :
      n \in {0, 1, 3, MaxNest},
      ks \in {{}} \cup {{k} : k \in 0..MaxNest} \cup {{k, MaxNest} : k \in 0..MaxNest} }

\* ------------------------------------------------------- the tools' outcomes

LineTags == <<"0", "1", "2", "3", "4", "5", "6", "7", "8", "9", "a", "b", "c", "e", "f", "h", "i", "j">>

\* the i-th line of a tool's output: every fifth line is about another package,
\* the others name the edited file, by its path as given or by its base name
ToolLine(fp, i, style) ==
  IF style = "mixed" /\ i % 5 = 1 THEN <<"#", SP, "p", LineTags[i]>>
  ELSE IF i % 2 = 0 THEN fp \o <<":", LineTags[i]>>
  ELSE <<"v", Slash>> \o PathBasename(fp) \o <<":", LineTags[i]>>

RECURSIVE ToolText(_, _, _, _)
\* lines i..n of an output, each ended by a newline
ToolText(fp, i, n, style) ==
  IF i > n THEN <<>> ELSE ToolLine(fp, i, style) \o <<NL>> \o ToolText(fp, i + 1, n, style)

JsStr(s) == JsVal("str", s, <<>>)
JsNull == JsVal("null", <<>>, <<>>)

\* a captured output: the text t, its first cut characters on stdout, the rest on stderr
Captured(k, t, cut) ==
  [kind |-> k, stdout |-> JsStr(SliceTo(t, cut)),
   stderr |-> JsStr(SubSeq(t, Len(SliceTo(t, cut)) + 1, Len(t)))]

\* what execFileSync('go', ...) may come back with: the tool exits 0, exits
\* non-zero, is killed at the timeout, or cannot be spawned (nothing captured)
ToolResults(fp) ==
  { Captured("exit", ToolText(fp, 1, n, style), 0) :
      n \in 0..MaxLines, style \in {"mixed", "all"} }
  \cup { Captured(k, ToolText(fp, 1, MaxLines, "all"), cut) :
           k \in {"ok", "exit", "timeout"}, cut \in {3, MaxLines} }
  \cup { Captured(k, ToolText(fp, 1, 2, "mixed"), 0) : k \in {"ok", "timeout"} }
  \cup { [kind |-> "enoent", stdout |-> JsNull, stderr |-> JsNull] }

\* what execFileSync('goimports', ...) may come back with; without an encoding
\* option the captured streams are buffers, which the hook never reads
FormatResults(fp) ==
  { Captured(k, t, 0) : k \in {"ok", "exit", "timeout"}, t \in {<<>>, ToolText(fp, 1, 1, "all")} }
  \cup { [kind |-> "enoent", stdout |-> JsNull, stderr |-> JsNull] }

NoResult == [kind |-> "none", stdout |-> JsNull, stderr |-> JsNull]

\* ------------------------------------------------------------------ state

VARIABLES
  hook,        \* which script this process runs
  stream,      \* the chunks standard input delivers, in order
  nread,       \* how many of them the 'data' handler has been given
  fs,          \* the paths that exist on disk
  data,        \* let data = ''
  pc,          \* where the process is: reading, then the steps of the 'end' handler
  filePath,    \* const filePath
  resolvedPath,\* const resolvedPath
  dir,         \* let dir
  root,        \* const root
  depth,       \* let depth
  probes,      \* the paths given to fs.existsSync, in order
  spawns,      \* the subprocesses run by execFileSync, in order
  toolResult,  \* what the last execFileSync came back with
  out,         \* the writes to standard output, in order
  err,         \* the lines written to the error stream, in order
  exitCode     \* the process exit code, -1 while it runs

vars == <<hook, stream, nread, fs, data, pc, filePath, resolvedPath, dir, root, depth,
          probes, spawns, toolResult, out, err, exitCode>>

handlerVars == <<filePath, resolvedPath, dir, root, depth>>
effectVars == <<probes, spawns, toolResult, out, err>>
envVars == <<hook, stream, fs>>

Init ==
  /\ hook \in Hooks
  /\ \E sc \in Scenarios : stream = sc.stream /\ fs = sc.fs
  /\ nread = 0
  /\ data = <<>>
  /\ pc = "reading"
  /\ filePath = Undefined
  /\ resolvedPath = <<>>
  /\ dir = <<>>
  /\ root = <<>>
  /\ depth = 0
  /\ probes = <<>>
  /\ spawns = <<>>
  /\ toolResult = NoResult
  /\ out = <<>>
  /\ err = <<>>
  /\ exitCode = -1

\* ---------------------------------------------------------------- helpers

\* console.log(text): the text and a line terminator, in one write
ConsoleLog(text) == text \o <<NL>>

\* no existence check at all: every path is taken to exist
ExistsSyncAlways(files, p) == TRUE

\* fs.existsSync
ExistsSync(files, p) == p \in files

\* the cap tested on the length after the append instead of before it
AccumulateTestAfter(buf, chunk) ==
  IF TextLen(buf \o chunk) <= MAX_STDIN THEN buf \o chunk ELSE buf

\* the chunk that crosses the cap cut to the room that is left
AccumulateTruncating(buf, chunk) ==
  IF TextLen(buf) < MAX_STDIN THEN buf \o SliceTo(chunk, MAX_STDIN - TextLen(buf)) ELSE buf

\* the cap tested with <= in place of <
AccumulateInclusive(buf, chunk) == IF TextLen(buf) <= MAX_STDIN THEN buf \o chunk ELSE buf

\* if (data.length < MAX_STDIN) { data += chunk; }
Accumulate(buf, chunk) == IF TextLen(buf) < MAX_STDIN THEN buf \o chunk ELSE buf

\* const input = JSON.parse(data); const filePath = input.tool_input?.file_path;
\* thrown is TRUE where one of the two statements throws
Extract(buf) ==
  LET parsed == JSONParse(buf)
  IN  IF ~parsed.ok \/ AccessThrows(parsed.v)
      THEN [thrown |-> TRUE, filePath |-> Undefined]
      ELSE [thrown |-> FALSE, filePath |-> OptProp(GetProp(parsed.v, KeyToolInput), KeyFilePath)]

\* the suffix test without its end anchor: /\.go/
IsGoFileUnanchored(fp) == Truthy(fp) /\ Includes(StringOf(fp), GoSuffix)

\* filePath && /\.go$/.test(filePath)
IsGoFile(fp) == Truthy(fp) /\ TestGoSuffix(StringOf(fp))

\* the outer try without its catch: the exception leaves the handler
VetCatchRethrow == "crashed"

\* the same for FormatHook
FormatCatchRethrow == "crashed"

\* where control goes when the outer try block of VetHook throws: the catch
\* block is empty and console.log(data) follows it
VetCatch == "echo"

\* the same for FormatHook
FormatCatch == "echo"

\* line 33 without its return: control falls through to line 74
AfterMissingFileFallsThrough == "echo"

\* line 33 without its return: control goes on to the walk at line 35
AfterMissingFileWalks == "walk"

\* where control goes at line 33, after console.log(data): return ends the handler
AfterMissingFile == "done"

\* the exit code of the process at a position: 0 once the handler has returned,
\* 1 when an exception escaped it, -1 while it runs
ExitCodeAt(p) == IF p = "done" THEN 0 ELSE IF p = "crashed" THEN 1 ELSE -1

\* the check after the loop leaving the filesystem root out
ModuleFoundBelowRoot(files, d) == d # <<Slash>> /\ PathJoin(d, GoMod) \in files

\* the loop without its break: the walk never stops at a marker
MarkerAtNever(files, d) == FALSE

\* the tool run without the check after the loop
ModuleFoundAlways(files, d) == TRUE

\* line 40: fs.existsSync(path.join(dir, 'go.mod')) inside the loop
MarkerAt(files, d) == ExistsSync(files, PathJoin(d, GoMod))

\* line 47: fs.existsSync(path.join(dir, 'go.mod')) after the loop
ModuleFound(files, d) == ExistsSync(files, PathJoin(d, GoMod))

\* the loop bound one over
WalkDepthOneMore == 20 + 1

\* the loop bound one short
WalkDepthOneLess == 20 - 1

\* the depth at which the walk gives up
MaxWalkDepth == 20

\* the most diagnostic lines reported
MaxReport == 10

VetTimeout == 30000
FormatTimeout == 15000

\* the filter without its basename alternative
MentionsFullPathOnly(line, fp) == Includes(line, fp)

\* line.includes(filePath) || line.includes(path.basename(filePath))
Mentions(line, fp) == Includes(line, fp) \/ Includes(line, PathBasename(fp))

\* (err.stdout || '') + (err.stderr || '')
CombinedOutput(res) ==
  (IF Truthy(res.stdout) THEN res.stdout.s ELSE <<>>)
  \o (IF Truthy(res.stderr) THEN res.stderr.s ELSE <<>>)

\* the first ten lines taken before the filter instead of after it
RelevantLinesSliceFirst(output, fp) ==
  LET keep(line) == Mentions(line, fp)
  IN  SelectSeq(SliceTo(SplitOn(output, NL), 10), keep)

\* output.split('\n').filter(...).slice(0, 10)
RelevantLines(output, fp) ==
  LET keep(line) == Mentions(line, fp)
  IN  SliceTo(SelectSeq(SplitOn(output, NL), keep), MaxReport)

\* '[Hook] Go vet errors in ' + path.basename(filePath) + ':'
Banner(fp) == <<"[", "H", "o", "o", "k", "]", SP, "G", "o", SP, "v", "e", "t", SP, "e", "r", "r", "o", "r", "s", SP, "i", "n", SP>> \o PathBasename(fp) \o <<":">>

\* the banner written before the filtered lines are counted
ReportBannerAlways(res, fp) ==
  <<Banner(fp)>> \o RelevantLines(CombinedOutput(res), fp)

\* a kill at the timeout told apart from the other failures and not reported
ReportUnlessTimeout(res, fp) ==
  LET relevantLines == RelevantLines(CombinedOutput(res), fp)
  IN  IF Len(relevantLines) > 0 /\ res.kind # "timeout"
      THEN <<Banner(fp)>> \o relevantLines ELSE <<>>

\* the catch block of the go vet call: what it writes to the error stream
Report(res, fp) ==
  LET relevantLines == RelevantLines(CombinedOutput(res), fp)
  IN  IF Len(relevantLines) > 0 THEN <<Banner(fp)>> \o relevantLines ELSE <<>>

\* the catch block entered whatever the exit status
ThrewAlways(res) == TRUE

\* execFileSync returns normally only when the tool exits 0; a non-zero exit,
\* a kill at the timeout and a spawn failure all throw into the catch block
Threw(res) == res.kind # "ok"

\* the failed call run again
AfterVetFailureRetry == "vet"

\* the catch block ending the process with a failure status
AfterVetFailureExit == "crashed"

\* lines 55-68: the catch block of the go vet call falls through to line 74
AfterVetFailure == "echo"

\* the formatter's failure reported the way the go vet hook reports
FormatReportLikeVet(res, fp) ==
  LET relevantLines == RelevantLines(CombinedOutput(res), fp)
  IN  IF Len(relevantLines) > 0 THEN <<Banner(fp)>> \o relevantLines ELSE <<>>

\* the path made absolute before it is handed to the formatter
FormatArgsResolved(fp) == <<"-w", PathResolve(Cwd, StringOf(fp))>>

\* line 105: ['-w', filePath], the path as the event gives it
FormatArgs(fp) == <<"-w", StringOf(fp)>>

\* lines 109-111: the catch block of the goimports call is empty
FormatReport(res, fp) == <<>>

\* the stream destroyed at the cap, so that 'end' handling starts early
StdinEndedAtCap(st, n, buf) == n = Len(st) \/ TextLen(buf) >= MAX_STDIN

\* the stream paused at the cap, so that 'end' is never emitted
StdinEndedUnlessCapped(st, n, buf) ==
  /\ n = Len(st)
  /\ Len(buf) + (PadLen - 1) * Cardinality({i \in 1..Len(buf) : buf[i] = Pad}) < MAX_STDIN

\* lines 20-26 and 92-98: the data handler neither pauses nor destroys the
\* stream, so 'end' is emitted once every chunk has been delivered
StdinEnded(st, n, buf) == n = Len(st)

\* ------------------------------------------------ VetHook (lines 16-75)

\* process.stdin.on('data', chunk => ...)
VetOnData ==
  /\ hook = "vet" /\ pc = "reading" /\ nread < Len(stream)
  /\ data' = Accumulate(data, stream[nread + 1])
  /\ nread' = nread + 1
  /\ UNCHANGED <<envVars, pc, handlerVars, effectVars, exitCode>>

\* process.stdin.on('end', ...), lines 27-31: parse, extract, test the suffix
VetOnEnd ==
  /\ hook = "vet" /\ pc = "reading" /\ StdinEnded(stream, nread, data)
  /\ LET x == Extract(data)
     IN  /\ filePath' = x.filePath
         /\ pc' = IF x.thrown THEN VetCatch
                  ELSE IF IsGoFile(x.filePath) THEN "resolve" ELSE "echo"
  /\ exitCode' = ExitCodeAt(pc')
  /\ UNCHANGED <<envVars, nread, data, resolvedPath, dir, root, depth, effectVars>>

\* lines 32-37: path.resolve throws TypeError on a non-string; a file that is
\* not on disk ends the handler with console.log(data); return
VetResolve ==
  /\ hook = "vet" /\ pc = "resolve"
  /\ IF filePath.k # "str"
     THEN /\ pc' = VetCatch
          /\ UNCHANGED <<resolvedPath, dir, root, depth, probes, out>>
     ELSE LET rp == PathResolve(Cwd, filePath.s)
          IN  /\ resolvedPath' = rp
              /\ probes' = Append(probes, rp)
              /\ IF ~ExistsSync(fs, rp)
                 THEN /\ out' = Append(out, ConsoleLog(data))
                      /\ pc' = AfterMissingFile
                      /\ UNCHANGED <<dir, root, depth>>
                 ELSE /\ dir' = PathDirname(rp)
                      /\ root' = PathRoot(PathDirname(rp))
                      /\ depth' = 0
                      /\ pc' = "walk"
                      /\ UNCHANGED out
  /\ exitCode' = ExitCodeAt(pc')
  /\ UNCHANGED <<envVars, nread, data, filePath, spawns, toolResult, err>>

\* lines 39-45: one test of the loop condition and, where it holds, one iteration
VetWalk ==
  /\ hook = "vet" /\ pc = "walk"
  /\ IF dir # root /\ depth < MaxWalkDepth
     THEN /\ probes' = Append(probes, PathJoin(dir, GoMod))
          /\ IF MarkerAt(fs, dir)
             THEN /\ pc' = "check"
                  /\ UNCHANGED <<dir, depth>>
             ELSE /\ dir' = PathDirname(dir)
                  /\ depth' = depth + 1
                  /\ pc' = "walk"
     ELSE /\ pc' = "check"
          /\ UNCHANGED <<dir, depth, probes>>
  /\ UNCHANGED <<envVars, nread, data, filePath, resolvedPath, root, spawns, toolResult,
                 out, err, exitCode>>

\* line 47: if (fs.existsSync(path.join(dir, 'go.mod')))
VetCheck ==
  /\ hook = "vet" /\ pc = "check"
  /\ probes' = Append(probes, PathJoin(dir, GoMod))
  /\ pc' = IF ModuleFound(fs, dir) THEN "vet" ELSE "echo"
  /\ UNCHANGED <<envVars, nread, data, handlerVars, spawns, toolResult, out, err, exitCode>>

\* lines 48-67: execFileSync('go', ['vet', './...'], {cwd: dir, timeout: 30000})
\* and, where it throws, the catch block
VetRun ==
  /\ hook = "vet" /\ pc = "vet"
  /\ \E res \in ToolResults(filePath.s) :
       /\ toolResult' = res
       /\ err' = IF Threw(res) THEN err \o Report(res, filePath.s) ELSE err
       /\ pc' = IF Threw(res) THEN AfterVetFailure ELSE "echo"
  /\ spawns' = Append(spawns, [cmd |-> "go", args |-> <<"vet", "./...">>,
                               cwd |-> dir, timeout |-> VetTimeout])
  /\ exitCode' = ExitCodeAt(pc')
  /\ UNCHANGED <<envVars, nread, data, handlerVars, probes, out>>

\* line 74: console.log(data), after which the process has nothing left to do
VetEcho ==
  /\ hook = "vet" /\ pc = "echo"
  /\ out' = Append(out, ConsoleLog(data))
  /\ pc' = "done"
  /\ exitCode' = ExitCodeAt(pc')
  /\ UNCHANGED <<envVars, nread, data, handlerVars, probes, spawns, toolResult, err>>

\* --------------------------------------------- FormatHook (lines 88-118)

\* process.stdin.on('data', chunk => ...)
FormatOnData ==
  /\ hook = "format" /\ pc = "reading" /\ nread < Len(stream)
  /\ data' = Accumulate(data, stream[nread + 1])
  /\ nread' = nread + 1
  /\ UNCHANGED <<envVars, pc, handlerVars, effectVars, exitCode>>

\* process.stdin.on('end', ...), lines 99-103: parse, extract, test the suffix
FormatOnEnd ==
  /\ hook = "format" /\ pc = "reading" /\ StdinEnded(stream, nread, data)
  /\ LET x == Extract(data)
     IN  /\ filePath' = x.filePath
         /\ pc' = IF x.thrown THEN FormatCatch
                  ELSE IF IsGoFile(x.filePath) THEN "fmt" ELSE "echo"
  /\ exitCode' = ExitCodeAt(pc')
  /\ UNCHANGED <<envVars, nread, data, resolvedPath, dir, root, depth, effectVars>>

\* lines 104-111: execFileSync('goimports', ['-w', filePath], {timeout: 15000});
\* whatever it throws is caught and dropped
FormatRun ==
  /\ hook = "format" /\ pc = "fmt"
  /\ \E res \in FormatResults(StringOf(filePath)) :
       /\ toolResult' = res
       /\ err' = IF Threw(res) THEN err \o FormatReport(res, StringOf(filePath)) ELSE err
  /\ spawns' = Append(spawns, [cmd |-> "goimports", args |-> FormatArgs(filePath),
                               cwd |-> Cwd, timeout |-> FormatTimeout])
  /\ pc' = "echo"
  /\ UNCHANGED <<envVars, nread, data, handlerVars, probes, out, exitCode>>

\* line 117: console.log(data)
FormatEcho ==
  /\ hook = "format" /\ pc = "echo"
  /\ out' = Append(out, ConsoleLog(data))
  /\ pc' = "done"
  /\ exitCode' = ExitCodeAt(pc')
  /\ UNCHANGED <<envVars, nread, data, handlerVars, probes, spawns, toolResult, err>>

Next ==
  \/ VetOnData
  \/ VetOnEnd
  \/ VetResolve
  \/ VetWalk
  \/ VetCheck
  \/ VetRun
  \/ VetEcho
  \/ FormatOnData
  \/ FormatOnEnd
  \/ FormatRun
  \/ FormatEcho

Spec == Init /\ [][Next]_vars

\* the 'end' handler is entered: the step that leaves the reading of stdin;
\* within Next these are the steps of VetOnEnd and FormatOnEnd
EndOfStream ==
  /\ pc = "reading" /\ StdinEnded(stream, nread, data)
  /\ pc' \in {"resolve", "fmt", "echo", "crashed"}

\* the positions inside the synchronous 'end' handler
InHandler == pc \in {"resolve", "walk", "check", "vet", "fmt", "echo"}

\* a step of the 'end' handler as seen on its position: the handler moves on
\* or the walk takes one more turn; within Next these are the steps of
\* VetResolve, VetWalk, VetCheck, VetRun, VetEcho, FormatRun and FormatEcho
HandlerStep ==
  /\ InHandler
  /\ pc' \in {"walk", "check", "vet", "echo", "done", "crashed"}
  /\ depth' \in {depth, depth + 1}

\* Standard input reaches end-of-stream: every chunk is delivered and then
\* 'end' is emitted. The 'end' handler is synchronous code, so the process
\* does not stop in the middle of it, and execFileSync returns or throws no
\* later than its timeout.
FairSpec ==
  /\ Spec
  /\ WF_vars(VetOnData \/ FormatOnData)
  /\ WF_pc(EndOfStream)
  /\ WF_<<pc, depth>>(HandlerStep)

\* ------------------------------------------------------------- properties

\* the positions at which the process still has a step to take
Running == pc \in {"reading", "resolve", "walk", "check", "vet", "fmt", "echo"}

\* the number of leading chunks of a stream the cap lets through: up to and
\* including the first one at which the accumulated length reaches the cap
Kept(st) ==
  LET full == {m \in 1..Len(st) : TextLen(Concat(SubSeq(st, 1, m))) >= MAX_STDIN}
  IN  IF full = {} THEN Len(st) ELSE CHOOSE m \in full : \A x \in full : m <= x

\* the part of the input stream that is buffered
KeptInput(st) == Concat(SubSeq(st, 1, Kept(st)))

\* C1: in both hooks, on every path taken after end-of-stream, the input is
\* written to standard output exactly once: never twice at any moment, not
\* before end-of-stream, and once when the process has no step left.
C1_StdoutWrittenExactlyOnce ==
  /\ Len(out) <= 1
  /\ (pc = "reading" => out = <<>>)
  /\ (~Running => Len(out) = 1)

\* the early-return path of VetHook (file not on disk) has ended with one write
C1_Witness ==
  /\ hook = "vet" /\ pc = "done"
  /\ resolvedPath # <<>> /\ resolvedPath \notin fs
  /\ Len(out) = 1

\* C2 as stated: what a hook writes to standard output is exactly the original
\* input, with no byte added, removed or altered.
C2_StdoutIsOriginalInput == ~Running => Concat(out) = Concat(stream)

\* C2, amended: what a hook writes to standard output is the buffered part of
\* the input (all of it unless the cap is reached) followed by one line
\* terminator, and nothing else.
C2_StdoutIsBufferThenNewline == ~Running => Concat(out) = KeptInput(stream) \o <<NL>>

\* a run whose input went past the cap has ended: a chunk was dropped
C2_Witness ==
  /\ pc = "done" /\ Kept(stream) < Len(stream)
  /\ Concat(out) = KeptInput(stream) \o <<NL>>

\* C3 as stated: for an input that is not valid JSON the hook exits 0, writes
\* exactly the original bytes and has no other effect.
C3_InvalidInputExactPassthrough ==
  (~Running /\ ~JSONParse(Concat(stream)).ok) =>
    /\ exitCode = 0
    /\ Concat(out) = Concat(stream)
    /\ spawns = <<>> /\ probes = <<>> /\ err = <<>>

\* C3, amended: when the buffered input is not valid JSON, no subprocess is
\* spawned, no filesystem lookup is made and nothing goes to the error stream
\* at any point of the handler, and the hook ends with exit code 0 and the
\* buffer followed by one line terminator on standard output.
C3_InvalidBufferPassthrough ==
  (pc # "reading" /\ ~JSONParse(data).ok) =>
    /\ spawns = <<>> /\ probes = <<>> /\ err = <<>>
    /\ ~Running => (exitCode = 0 /\ out = <<data \o <<NL>>>>)

\* FormatHook has ended on a non-empty buffer that is not valid JSON
C3_Witness ==
  /\ hook = "format" /\ pc = "done"
  /\ data # <<>> /\ ~JSONParse(data).ok
  /\ out = <<data \o <<NL>>>>

\* C4: for a parsed JSON value of any shape no exception escapes the
\* end-of-stream handler: the process never crashes, and it ends having made
\* the passthrough write, with exit code 0.
C4_NoExceptionEscapes ==
  /\ pc # "crashed"
  /\ (pc # "reading" /\ JSONParse(data).ok /\ ~Running) =>
       (pc = "done" /\ Len(out) = 1 /\ exitCode = 0)

\* VetHook has ended after path.resolve threw on an array whose string form
\* ends in .go
C4_Witness ==
  /\ hook = "vet" /\ pc = "done"
  /\ filePath.k = "arr" /\ IsGoFile(filePath)
  /\ probes = <<>> /\ Len(out) = 1

\* whether text s ends in the text suffix
EndsIn(s, suffix) == \E n \in 0..Len(s) : s = SubSeq(s, 1, n) \o suffix

\* whether a buffer is a JSON object whose tool_input is an object with a
\* file_path member whose value, as a string, ends in .go
HasGoPath(buf) ==
  LET p == JSONParse(buf)
  IN  /\ p.ok
      /\ p.v.k = "obj"
      /\ \E i \in 1..Len(p.v.e) : p.v.e[i].key = KeyToolInput
      /\ LET ti == GetProp(p.v, KeyToolInput)
         IN  /\ ti.k = "obj"
             /\ \E i \in 1..Len(ti.e) : ti.e[i].key = KeyFilePath
             /\ EndsIn(StringOf(GetProp(ti, KeyFilePath)), GoSuffix)

\* C5: a subprocess is spawned only if the parsed event has a
\* tool_input.file_path whose value ends in .go; on valid JSON without the
\* field, or with another suffix, the hook is a pure passthrough.
C5_SpawnOnlyForGoPath ==
  pc # "reading" =>
    /\ spawns # <<>> => HasGoPath(data)
    /\ (~HasGoPath(data) /\ ~Running) =>
         /\ spawns = <<>> /\ err = <<>> /\ probes = <<>>
         /\ out = <<data \o <<NL>>>> /\ exitCode = 0

\* a hook has ended on valid JSON whose file_path is a string with another suffix
C5_Witness ==
  /\ pc = "done" /\ JSONParse(data).ok
  /\ filePath.k = "str" /\ filePath.s # <<>> /\ ~EndsIn(filePath.s, GoSuffix)
  /\ spawns = <<>>

\* the edited file's path in absolute form, for a string filePath
FileAbs == PathResolve(Cwd, filePath.s)

\* VetHook on an event whose file_path is a string ending in .go
VetOnGoPath == hook = "vet" /\ pc # "reading" /\ filePath.k = "str" /\ IsGoFile(filePath)

\* C6: VetHook, when the resolved file path does not exist on disk: no
\* directory is walked (the only lookup is the one of the file itself), no
\* subprocess is spawned, nothing goes to the error stream, and the input is
\* echoed.
C6_MissingFileSkipsAnalysis ==
  (VetOnGoPath /\ FileAbs \notin fs) =>
    /\ probes \in {<<>>, <<FileAbs>>}
    /\ spawns = <<>> /\ err = <<>>
    /\ pc \in {"resolve", "done"}
    /\ pc = "done" => (probes = <<FileAbs>> /\ out = <<data \o <<NL>>>> /\ exitCode = 0)

\* VetHook has ended on a relative .go path whose file is not on disk
C6_Witness ==
  /\ VetOnGoPath /\ pc = "done"
  /\ filePath.s[1] # Slash
  /\ FileAbs \notin fs
  /\ probes = <<FileAbs>> /\ Len(out) = 1

\* VetHook's walk has ended in a directory that holds no go.mod
WalkEndedUnmarked ==
  /\ VetOnGoPath /\ FileAbs \in fs
  /\ pc \in {"echo", "done"}
  /\ PathJoin(dir, GoMod) \notin fs

\* C7 as stated: when the walk finds no go.mod, the analysis subprocess is
\* never spawned, nothing goes to the error stream, and standard output
\* equals the input.
C7_NoModuleRootStdoutIsInput ==
  WalkEndedUnmarked =>
    /\ spawns = <<>> /\ err = <<>>
    /\ pc = "done" => Concat(out) = Concat(stream)

\* C7, amended: when the walk finds no go.mod, the analysis subprocess is
\* never spawned, nothing goes to the error stream, and standard output is
\* the buffered input followed by one line terminator.
C7_NoModuleRootSkipsAnalysis ==
  WalkEndedUnmarked =>
    /\ spawns = <<>> /\ err = <<>> /\ toolResult = NoResult
    /\ pc = "done" => (out = <<data \o <<NL>>>> /\ exitCode = 0)

\* VetHook has ended after a walk that moved up and found no go.mod
C7_Witness ==
  /\ WalkEndedUnmarked /\ pc = "done"
  /\ depth > 0 /\ Len(probes) > 2
  /\ spawns = <<>>

\* the directories from the absolute directory d (depth 0) up to the root: at
\* depth k, d without its last k segments
Ancestors(d) ==
  LET segs == SelectSeq(SplitOn(d, Slash), LAMBDA seg : seg # <<>>)
  IN  [k \in 0..Len(segs) |->
         IF k = Len(segs) THEN <<Slash>> ELSE JoinSegs(SubSeq(segs, 1, Len(segs) - k))]

\* the directory that holds the edited file
FileDir == PathDirname(FileAbs)

\* the depths among the directories A that hold go.mod
MarkerDepths(A) == {k \in DOMAIN A : PathJoin(A[k], GoMod) \in fs}

\* the least of a non-empty set of depths
Nearest(depths) == CHOOSE k \in depths : \A j \in depths : k <= j

\* VetHook has ended on a .go file that is on disk
WalkOver == VetOnGoPath /\ FileAbs \in fs /\ pc = "done"

\* C8 as stated: the walk locates a marker at any depth 0..19 and fails
\* (passthrough without analysis) when the nearest marker is at depth 20 or
\* more, or when there is none up to the root.
C8_WalkFindsDepthsBelow20 ==
  WalkOver =>
    LET A == Ancestors(FileDir)
        found == MarkerDepths(A)
    IN  IF found # {} /\ Nearest(found) <= 19
        THEN spawns # <<>> /\ dir = A[Nearest(found)]
        ELSE spawns = <<>> /\ err = <<>>

\* C8, amended: the walk locates a marker at any depth 0..20 and fails
\* (passthrough without analysis) when the nearest marker is at depth 21 or
\* more, or when there is none up to the root.
C8_WalkFindsDepthsUpTo20 ==
  WalkOver =>
    LET A == Ancestors(FileDir)
        found == MarkerDepths(A)
    IN  IF found # {} /\ Nearest(found) <= 20
        THEN spawns # <<>> /\ dir = A[Nearest(found)]
        ELSE spawns = <<>> /\ err = <<>>

\* the analysis ran in a module root twenty levels above the file's directory
C8_Witness ==
  /\ WalkOver
  /\ LET found == MarkerDepths(Ancestors(FileDir))
     IN  found # {} /\ Nearest(found) = 20
  /\ spawns # <<>> /\ depth = 20

\* C9: whenever go vet is invoked, its working directory holds go.mod, is the
\* file's directory or one of its ancestors, and no directory between it and
\* the file holds go.mod.
C9_CwdIsNearestModuleRoot ==
  \A i \in 1..Len(spawns) :
    spawns[i].cmd = "go" =>
      LET A == Ancestors(FileDir)
      IN  /\ PathJoin(spawns[i].cwd, GoMod) \in fs
          /\ \E k \in DOMAIN A :
               /\ spawns[i].cwd = A[k]
               /\ \A j \in 0..(k - 1) : PathJoin(A[j], GoMod) \notin fs

\* go vet ran in a module root above the file's directory while a farther
\* ancestor holds go.mod too
C9_Witness ==
  /\ hook = "vet" /\ Len(spawns) = 1
  /\ LET A == Ancestors(FileDir)
         found == MarkerDepths(A)
     IN  /\ Cardinality(found) = 2
         /\ Nearest(found) >= 1
         /\ spawns[1].cwd = A[Nearest(found)]

\* the lines of the captured output of a tool run, stdout before stderr
ToolLines(res) == SplitOn(res.stdout.s \o res.stderr.s, NL)

\* the positions of the lines among L that mention the file path fp
MatchingLines(L, fp) ==
  {i \in 1..Len(L) : Includes(L[i], fp) \/ Includes(L[i], PathBasename(fp))}

\* the diagnostic lines on the error stream: what follows the banner
DiagnosticLines == IF err = <<>> THEN <<>> ELSE Tail(err)

ToolFailed == hook = "vet" /\ toolResult.kind \in {"exit", "timeout", "enoent"}

\* C10: when the analysis tool fails, the diagnostic lines on the error stream
\* are exactly the first min(10, k) of the k output lines that mention the
\* edited file, in their original order.
C10_FirstTenMatchingLines ==
  ToolFailed =>
    LET L == ToolLines(toolResult)
        M == MatchingLines(L, filePath.s)
        D == DiagnosticLines
    IN  /\ Len(D) = (IF Cardinality(M) < 10 THEN Cardinality(M) ELSE 10)
        /\ \A j \in 1..Len(D) :
             \E i \in M : Cardinality({m \in M : m < i}) = j - 1 /\ D[j] = L[i]

\* the tool failed with more than ten lines about the file among others
C10_Witness ==
  /\ ToolFailed
  /\ LET L == ToolLines(toolResult)
         M == MatchingLines(L, filePath.s)
     IN  Cardinality(M) > 10 /\ Cardinality(M) < Len(L) - 1
  /\ Len(DiagnosticLines) = 10

VetExitedZero == hook = "vet" /\ toolResult.kind = "ok"

\* C11 as stated: when the analysis tool exits 0 nothing is written to the
\* error stream and standard output equals the original input.
C11_ExitZeroStdoutIsInput ==
  VetExitedZero =>
    /\ err = <<>>
    /\ pc = "done" => Concat(out) = Concat(stream)

\* C11: when the analysis tool exits 0 nothing is written to the error stream,
\* whatever the tool printed, and the one write to standard output is the
\* buffer followed by a line terminator, with exit code 0.
C11_ExitZeroSilent ==
  VetExitedZero =>
    /\ err = <<>>
    /\ pc \in {"echo", "done"}
    /\ pc = "done" => (out = <<data \o <<NL>>>> /\ exitCode = 0)

\* the tool exited 0 after printing lines that mention the edited file
C11_Witness ==
  /\ VetExitedZero /\ pc = "done" /\ err = <<>>
  /\ LET L == ToolLines(toolResult)
     IN  Cardinality(MatchingLines(L, filePath.s)) > 10

\* the text of the banner line for the file path fp
BannerText(fp) ==
  <<"[", "H", "o", "o", "k", "]", SP, "G", "o", SP, "v", "e", "t", SP,
    "e", "r", "r", "o", "r", "s", SP, "i", "n", SP>> \o PathBasename(fp) \o <<":">>

\* C12: the error stream is written only by VetHook and only after the analysis
\* subprocess failed with at least one output line that mentions the edited
\* file; the banner is then the first line written and the only line written
\* besides the diagnostic lines, each of which is one of the matching output
\* lines, and a failure with no matching line writes neither banner nor lines.
C12_ErrorStreamOnlyOnRelevantFailure ==
  /\ hook = "format" => err = <<>>
  /\ ~ToolFailed => err = <<>>
  /\ ToolFailed =>
       LET L == ToolLines(toolResult)
           M == MatchingLines(L, filePath.s)
       IN  /\ M = {} => err = <<>>
           /\ M # {} =>
                /\ Len(err) = 1 + (IF Cardinality(M) < 10 THEN Cardinality(M) ELSE 10)
                /\ err[1] = BannerText(filePath.s)
                /\ \A j \in 2..Len(err) : \E i \in M : err[j] = L[i]

\* the tool failed with lines about the file: banner first, then the lines
C12_Witness ==
  /\ ToolFailed /\ pc = "done"
  /\ Len(err) > 2 /\ err[1] = BannerText(filePath.s)

\* the tool failed and printed lines, none about the file: nothing is written
C12_WitnessNoMatch ==
  /\ ToolFailed /\ pc = "done"
  /\ LET L == ToolLines(toolResult)
     IN  Len(L) > 1 /\ MatchingLines(L, filePath.s) = {}
  /\ err = <<>>

FormatFailed == hook = "format" /\ toolResult.kind \in {"exit", "timeout", "enoent"}

\* C13 as stated: after any failure of the formatter invocation nothing is
\* written to the error stream, the exit code is 0 and standard output is the
\* original input.
C13_FormatFailureStdoutIsInput ==
  FormatFailed =>
    /\ err = <<>>
    /\ pc = "done" => (exitCode = 0 /\ Concat(out) = Concat(stream))

\* C13: after any failure of the formatter invocation (not spawned, non-zero
\* exit, killed at the timeout) nothing is written to the error stream, the
\* hook goes on to its passthrough write, exits 0, and standard output is the
\* buffer followed by a line terminator.
C13_FormatFailureDiscarded ==
  FormatFailed =>
    /\ err = <<>>
    /\ pc \in {"echo", "done"}
    /\ pc = "done" => (exitCode = 0 /\ out = <<data \o <<NL>>>>)

\* the formatter exited non-zero with a message about the file, and the hook
\* finished without a word
C13_Witness ==
  /\ FormatFailed /\ pc = "done" /\ err = <<>> /\ exitCode = 0
  /\ toolResult.kind = "exit"
  /\ MatchingLines(ToolLines(toolResult), StringOf(filePath)) # {}

\* what the catch block writes for the captured output text, with no regard
\* to how the call failed
ReportOf(text, fp) ==
  LET L == SplitOn(text, NL)
      M == MatchingLines(L, fp)
      n == IF Cardinality(M) < 10 THEN Cardinality(M) ELSE 10
      nth(j) == CHOOSE i \in M : Cardinality({m \in M : m < i}) = j - 1
  IN  IF M = {} THEN <<>>
      ELSE <<BannerText(fp)>> \o [j \in 1..n |-> L[nth(j)]]

\* the text captured from the failed call; nothing when it could not be spawned
CapturedText(res) ==
  (IF res.stdout.k = "str" THEN res.stdout.s ELSE <<>>)
  \o (IF res.stderr.k = "str" THEN res.stderr.s ELSE <<>>)

\* C14: whether the analysis subprocess could not be spawned, was killed at
\* the timeout or exited non-zero, what VetHook writes to the error stream is
\* one function of the captured output text (nothing when nothing was
\* captured), the hook goes on to its passthrough write, and standard output
\* and exit code are those of every other run on the same buffer.
C14_FailureKindsAlike ==
  ToolFailed =>
    /\ err = ReportOf(CapturedText(toolResult), filePath.s)
    /\ CapturedText(toolResult) = <<>> => err = <<>>
    /\ pc \in {"echo", "done"}
    /\ pc = "done" => (exitCode = 0 /\ Len(out) = 1 /\ out[1] = data \o <<NL>>)

\* a call killed at the timeout is reported from what it had printed
C14_Witness ==
  /\ ToolFailed /\ toolResult.kind = "timeout" /\ pc = "done"
  /\ err # <<>> /\ err = ReportOf(CapturedText(toolResult), filePath.s)

\* C15: after any sequence of stdin chunks the buffer holds at most MAX_STDIN
\* (1048576) characters.
C15_BufferWithinCap == TextLen(data) <= MAX_STDIN

\* the buffer one short of the cap took a whole further chunk
C15_Overshoot ==
  /\ nread >= 2 /\ TextLen(data) > MAX_STDIN
  /\ TextLen(data) = TextLen(Concat(SubSeq(stream, 1, nread)))

\* nothing of the end handler has happened yet
NothingDoneYet ==
  /\ filePath = Undefined /\ resolvedPath = <<>>
  /\ probes = <<>> /\ spawns = <<>> /\ toolResult = NoResult
  /\ out = <<>> /\ err = <<>>

\* C16: while the stream is being read nothing is parsed, probed, spawned or
\* written; every chunk is still delivered to the data handler once the cap
\* has been reached, and is dropped there; and the end handler starts only
\* when the whole stream has been delivered.
C16_DrainThenAct ==
  /\ [](pc = "reading" => NothingDoneYet)
  /\ [](pc # "reading" => nread = Len(stream))
  /\ []((pc = "reading" /\ nread < Len(stream)) => ENABLED (VetOnData \/ FormatOnData))
  /\ [][(nread' # nread /\ TextLen(data) >= MAX_STDIN)
          => (nread' = nread + 1 /\ data' = data /\ pc' = "reading")]_vars

\* a chunk was delivered and dropped after the cap, before end-of-stream
C16_Witness ==
  /\ pc = "reading" /\ NothingDoneYet
  /\ nread > Kept(stream) /\ TextLen(data) >= MAX_STDIN

\* C17: with standard input reaching end-of-stream and the spawned tool
\* returning or being killed at its timeout, every invocation of either hook
\* eventually has made its passthrough write and ended with exit code 0.
C17_EventuallyPassthroughAndExit ==
  <>(pc = "done" /\ exitCode = 0 /\ Len(out) = 1 /\ nread = Len(stream))

\* an invocation whose input passed the cap and whose tool was killed at the
\* timeout has written its output and ended with exit code 0
C17_Witness ==
  /\ pc = "done" /\ exitCode = 0 /\ Len(out) = 1
  /\ Kept(stream) < Len(stream)
  /\ toolResult.kind = "timeout"

\* C18: an invocation of either hook spawns at most one subprocess and never a
\* second one after a failure; the spawn comes back with the tool's outcome in
\* the same step, while standard output is still empty, and no spawn follows
\* the passthrough write.
C18_OneSpawnBeforeWrite ==
  /\ [](Len(spawns) <= 1)
  /\ []((spawns = <<>>) <=> (toolResult = NoResult))
  /\ [](out # <<>> /\ pc # "done" => spawns = <<>>)
  /\ [][spawns' # spawns =>
          /\ spawns = <<>> /\ Len(spawns') = 1
          /\ toolResult' # NoResult
          /\ out = <<>> /\ out' = <<>>]_vars
  /\ [][out # <<>> => spawns' = spawns /\ toolResult' = toolResult]_vars

\* the one subprocess failed, was not run again, and the write came after it
C18_Witness ==
  /\ pc = "done" /\ Len(spawns) = 1 /\ Len(out) = 1
  /\ toolResult.kind \in {"exit", "enoent"}

\* what an invocation writes to standard output, as a function of the chunks
\* of its standard input alone
StdoutOf(st) == <<KeptInput(st) \o <<NL>>>>

\* C19, for standard input taken as the chunks delivered: the standard output
\* and the exit code of a finished invocation are functions of that chunk
\* sequence alone, the same for either hook, whatever the filesystem holds and
\* however the tool ends.
C19_OutputDependsOnInputOnly ==
  /\ pc = "done" => (out = StdoutOf(stream) /\ exitCode = 0)
  /\ pc # "done" => (out = <<>> /\ exitCode = -1)

\* a run that probed the filesystem and had its tool fail with a report still
\* ends with the output fixed by its input
C19_Witness ==
  /\ pc = "done" /\ out = StdoutOf(stream) /\ exitCode = 0
  /\ Len(probes) > 2 /\ toolResult.kind = "exit" /\ err # <<>>

RECURSIVE BufferAfter(_, _)
\* the buffer after the data handler has taken the chunks of st in turn
BufferAfter(buf, st) ==
  IF st = <<>> THEN buf ELSE BufferAfter(Accumulate(buf, Head(st)), Tail(st))

\* C19 as stated: standard output and exit code are fixed by the characters of
\* standard input, so that the run at hand ends as the run to which the same
\* characters are delivered in one chunk.
C19_OutputFixedByInputCharacters ==
  pc = "done" =>
    /\ exitCode = 0
    /\ out = <<ConsoleLog(BufferAfter(<<>>, <<Concat(stream)>>))>>

\* the same characters, cut into chunks differently, leave different buffers
C19_ChunkingShows ==
  /\ pc = "done"
  /\ out[1] # ConsoleLog(Concat(stream))
  /\ BufferAfter(<<>>, <<Concat(stream)>>) = Concat(stream)

\* the path of the go.mod marker directly inside the absolute directory d
MarkerPathIn(d) == (IF d = <<Slash>> THEN <<>> ELSE d) \o <<Slash>> \o GoMod

\* C20: no step of either hook changes the filesystem. VetHook's lookups are
\* existence checks of the edited file (the first one) and of go.mod directly
\* inside a directory on the way from the file's directory up to the root;
\* FormatHook makes no lookup, and the one command it runs is the formatter
\* in rewrite mode on the edited file's path and nothing else, as VetHook's
\* is go vet on the module's packages.
C20_FilesystemLeftAlone ==
  /\ [][fs' = fs]_vars
  /\ [](hook = "format" =>
          /\ probes = <<>>
          /\ \A i \in 1..Len(spawns) :
               /\ spawns[i].cmd = "goimports"
               /\ spawns[i].args = <<"-w", StringOf(filePath)>>)
  /\ [](hook = "vet" /\ probes # <<>> =>
          LET A == Ancestors(FileDir)
          IN  /\ probes[1] = FileAbs
              /\ \A i \in 2..Len(probes) :
                   \E k \in DOMAIN A : probes[i] = MarkerPathIn(A[k])
              /\ \A i \in 1..Len(spawns) :
                   /\ spawns[i].cmd = "go"
                   /\ spawns[i].args = <<"vet", "./...">>)

\* VetHook looked the file and several markers up and ran the tool, on the
\* filesystem it started with
C20_Witness ==
  /\ hook = "vet" /\ pc = "done"
  /\ Len(probes) > 4 /\ Len(spawns) = 1

\* C21: in VetHook the write to standard output is the last thing the
\* invocation does: the tool's run and every write to the error stream come
\* in steps that leave standard output empty, and once standard output has
\* been written no lookup, spawn or write of either stream follows.
C21_StdoutWriteIsLast ==
  /\ [](hook = "vet" /\ out # <<>> => pc = "done")
  /\ [][hook = "vet" /\ (spawns' # spawns \/ err' # err) => out = <<>> /\ out' = <<>>]_vars
  /\ [][hook = "vet" /\ out # <<>> =>
          /\ probes' = probes /\ spawns' = spawns /\ toolResult' = toolResult
          /\ err' = err /\ out' = out]_vars

\* the tool failed and was reported, and the write to standard output came
\* after the banner and the lines
C21_Witness ==
  /\ hook = "vet" /\ pc = "done" /\ Len(out) = 1
  /\ Len(spawns) = 1 /\ Len(err) > 1 /\ Len(probes) > 1

\* the value of tool_input.file_path in the buffer, where the buffer is a JSON
\* object that holds a string there
EventPath(buf) ==
  LET p == JSONParse(buf)
      ti == IF p.ok /\ p.v.k = "obj" THEN GetProp(p.v, KeyToolInput) ELSE Undefined
  IN  IF ti.k = "obj" THEN GetProp(ti, KeyFilePath) ELSE Undefined

\* C22: once FormatHook has an event whose file_path is a string ending in
\* .go, the formatter has been run, once, on that string as the event gives
\* it and with -w, whether or not the file is on disk or under a go.mod;
\* FormatHook looks nothing up.
C22_FormatRunsOnPathAsGiven ==
  (hook = "format" /\ pc \in {"echo", "done"}) =>
    LET fp == EventPath(data)
    IN  (fp.k = "str" /\ EndsIn(fp.s, GoSuffix)) =>
          /\ probes = <<>>
          /\ Len(spawns) = 1
          /\ spawns[1].cmd = "goimports"
          /\ spawns[1].args = <<"-w", fp.s>>
          /\ toolResult # NoResult

\* the formatter was run on a relative path, left unresolved, of a file that
\* is not on disk
C22_Witness ==
  /\ hook = "format" /\ pc = "done" /\ Len(spawns) = 1
  /\ LET given == spawns[1].args[2]
     IN  /\ given = EventPath(data).s
         /\ PathResolve(Cwd, given) # given
         /\ PathResolve(Cwd, given) \notin fs

\* the chunks delivered so far, put together
Delivered == Concat(SubSeq(stream, 1, nread))

\* C23: the buffer is at every moment the first m of the chunks delivered so
\* far put together, for some m; a data event leaves the buffer as it is or
\* appends the whole chunk; and once a chunk has been dropped (the buffer
\* lags behind what was delivered) the buffer never changes again.
C23_BufferIsWholeChunkPrefix ==
  /\ [](\E m \in 0..nread : data = Concat(SubSeq(stream, 1, m)))
  /\ [][nread' # nread =>
          /\ nread' = nread + 1
          /\ data' \in {data, data \o stream[nread + 1]}]_vars
  /\ [][data # Delivered => data' = data]_vars

\* two chunks were appended whole, a third was dropped, and the buffer is
\* the first two
C23_Witness ==
  /\ nread = 3 /\ Len(stream) = 3
  /\ data = Concat(SubSeq(stream, 1, 2)) /\ data # Delivered

\* the length of the longest of the chunks st
LargestChunk(st) ==
  IF st = <<>> THEN 0
  ELSE LET lens == {TextLen(st[i]) : i \in 1..Len(st)}
       IN  CHOOSE n \in lens : \A k \in lens : k <= n

Deliveries(t) ==
  { NonEmptyChunks(st) : st \in
      { <<t>>,
        <<SubSeq(t, 1, Len(t) \div 2), SubSeq(t, Len(t) \div 2 + 1, Len(t))>> } }

\* whether two buffers parse alike (both fail, or both give the same value)
\* and lead to the same decision on the file path
SameReading(b1, b2) ==
  LET p1 == JSONParse(b1)
      p2 == JSONParse(b2)
      x1 == Extract(b1)
      x2 == Extract(b2)
  IN  /\ p1.ok = p2.ok
      /\ p1.ok => p1.v = p2.v
      /\ x1.thrown = x2.thrown
      /\ IsGoFile(x1.filePath) = IsGoFile(x2.filePath)

\* C25 as stated: standard output is the buffer followed by one line
\* terminator, and a hook that is fed this output reads it as the first hook
\* read its buffer: same JSON value, same decision on the file path.
C25_OutputReadsAsBuffer ==
  ~Running =>
    /\ out = <<data \o <<NL>>>>
    /\ \A st \in Deliveries(out[1]) : SameReading(data, BufferAfter(<<>>, st))

\* C25, for output that reaches the next hook in one chunk: standard output
\* is the buffer followed by one line terminator, and the next hook reads it
\* as the first hook read its buffer.
C25_OutputInOneChunkReadsAsBuffer ==
  ~Running =>
    /\ out = <<data \o <<NL>>>>
    /\ SameReading(data, BufferAfter(<<>>, <<out[1]>>))

\* a buffer past the cap was read as an event with a .go path, and its
\* output cut in two is read by the next hook as no event at all
C25_CutOutputReadsOtherwise ==
  /\ pc = "done" /\ TextLen(data) > MAX_STDIN
  /\ ~Extract(data).thrown /\ IsGoFile(Extract(data).filePath)
  /\ \E st \in Deliveries(out[1]) : Extract(BufferAfter(<<>>, st)).thrown

\* what follows the last slash of the path fp
LastSegment(fp) ==
  LET slashes == {i \in 1..Len(fp) : fp[i] = Slash}
      last == IF slashes = {} THEN 0 ELSE CHOOSE i \in slashes : \A j \in slashes : j <= i
  IN  SubSeq(fp, last + 1, Len(fp))

RootMarker == <<Slash>> \o GoMod

\* C27: when go.mod lies in the filesystem root, at most 20 levels above the
\* file's directory, and in no directory below it on the way, the loop has
\* probed each of those lower directories and not the root, the check after
\* the loop has probed the root, and go vet is run with the root as working
\* directory; so also for a file directly in the root, where the loop probes
\* nothing.
C27_RootMarkerFoundByFinalCheck ==
  (VetOnGoPath /\ FileAbs \in fs /\ pc \in {"echo", "done"}) =>
    LET A == Ancestors(FileDir)
        r == CHOOSE k \in DOMAIN A : A[k] = <<Slash>>
    IN  (/\ RootMarker \in fs /\ r <= 20
         /\ \A k \in 0..(r - 1) : MarkerPathIn(A[k]) \notin fs) =>
          /\ probes = <<FileAbs>> \o [k \in 1..r |-> MarkerPathIn(A[k - 1])] \o <<RootMarker>>
          /\ dir = <<Slash>> /\ depth = r
          /\ Len(spawns) = 1 /\ spawns[1].cmd = "go" /\ spawns[1].cwd = <<Slash>>

\* the edited file lies directly in the root, which holds go.mod: one lookup
\* of the file, one of the root's go.mod, and go vet run in the root
C27_Witness ==
  /\ hook = "vet" /\ pc = "done"
  /\ probes = <<<<Slash, "x", ".", "g", "o">>, RootMarker>>
  /\ Len(spawns) = 1 /\ spawns[1].cwd = <<Slash>>

\* the root's go.mod was found from three levels down, after three lookups
\* in the loop
C27_WitnessFromBelow ==
  /\ hook = "vet" /\ pc = "done" /\ depth = 3 /\ Len(probes) = 5
  /\ probes[5] = RootMarker /\ \A i \in 1..4 : probes[i] # RootMarker
  /\ Len(spawns) = 1 /\ spawns[1].cwd = <<Slash>>

\* the directories whose go.mod has been looked up: every lookup but the
\* first, which is the one of the edited file
ProbedMarkers == {probes[i] : i \in 2..Len(probes)}

\* C28: from the start of the walk on, the current directory is the
\* depth-th ancestor of the directory that holds the edited file, depth is
\* the number of upward moves and lies in 0..20, no directory below the
\* current one on the way holds go.mod, and the lookups of go.mod are in at
\* most 21 distinct directories, each of them on the way up.
C28_WalkInvariant ==
  (hook = "vet" /\ dir # <<>>) =>
    LET A == Ancestors(FileDir)
    IN  /\ depth \in 0..20 /\ depth \in DOMAIN A
        /\ dir = A[depth]
        /\ \A j \in 0..(depth - 1) : MarkerPathIn(A[j]) \notin fs
        /\ Cardinality(ProbedMarkers) <= 21
        /\ Cardinality(ProbedMarkers) <= depth + 1
        /\ ProbedMarkers \subseteq {MarkerPathIn(A[k]) : k \in 0..depth}

\* the walk made its 20 moves without a find and the final check looked
\* into the 21st directory
C28_Witness ==
  /\ hook = "vet" /\ pc = "done" /\ depth = 20
  /\ Cardinality(ProbedMarkers) = 21
  /\ dir # <<Slash>>

\* lines 100-103: whether FormatHook, holding the buffer buf at
\* end-of-stream, goes on to run the formatter
FormatSpawnsOn(buf) ==
  LET x == Extract(buf)
  IN  ~x.thrown /\ IsGoFile(x.filePath)

\* C29 as stated: if VetHook has spawned the analysis tool, FormatHook given
\* the same input, however it is cut into chunks, spawns the formatter.
C29_VetSpawnImpliesFormatSpawn ==
  (hook = "vet" /\ spawns # <<>>) =>
    \A st \in Deliveries(Concat(stream)) : FormatSpawnsOn(BufferAfter(<<>>, st))

\* C29, for the two hooks given the same chunks: both hold the same buffer;
\* VetHook spawns only on a buffer on which FormatHook spawns; and on a
\* buffer that does not parse, lacks the field or has another suffix both
\* end alike, with no lookup, no spawn, nothing on the error stream and the
\* same standard output.
C29_SameChunksVetImpliesFormat ==
  pc # "reading" =>
    /\ data = KeptInput(stream)
    /\ (hook = "vet" /\ spawns # <<>>) => FormatSpawnsOn(KeptInput(stream))
    /\ (hook = "format" /\ pc # "fmt") =>
         (spawns # <<>> <=> FormatSpawnsOn(KeptInput(stream)))
    /\ (~FormatSpawnsOn(KeptInput(stream)) /\ pc = "done") =>
         /\ probes = <<>> /\ spawns = <<>> /\ err = <<>>
         /\ out = <<KeptInput(stream) \o <<NL>>>> /\ exitCode = 0

\* VetHook spawned on a buffer past the cap, and the same characters cut in
\* two leave FormatHook with a buffer on which it does not spawn
C29_OtherCutNoFormatSpawn ==
  /\ hook = "vet" /\ pc = "done" /\ Len(spawns) = 1
  /\ \E st \in Deliveries(Concat(stream)) : ~FormatSpawnsOn(BufferAfter(<<>>, st))

====
